---- MODULE Spec2Model ----
(***************************************************************************)
(* Model of the Wordle solvers of steamed-dumplings: the feedback engine   *)
(* and parsing helpers of wordle_utils.py, the /wordle_csp command of      *)
(* wordle_csp.py and the /wordle_gpt5_mini command of wordle_gpt5_mini.py  *)
(* (main.py's /wordle command is the same loop, line for line).            *)
(*                                                                         *)
(* Characters are numbers: 0 is a whitespace character, 1..26 are the      *)
(* lowercase letters a..z, 27..52 the uppercase letters A..Z; any other    *)
(* number is a character that is neither.  A string is a sequence of       *)
(* characters.  On lowercase letters the order of the numbers is the       *)
(* order of the code points Python compares.                               *)
(***************************************************************************)
EXTENDS Integers, Sequences, FiniteSets, TLC

\* ------------------------------------------------------------------ bounds

\* How many words of WordList the dictionary file and the target range over.
NumWords == 4

\* How many words of WordList the advisory service may answer with.
NumReplies == 2

\* ------------------------------------------------------- program constants

\* len(word) == 5 in is_valid_five_letter_word
WordLen == 5

\* for attempt in range(1, 7)
MaxAttempts == 6

\* guess_count: Optional[int] = None
NoCount == 0

\* ------------------------------------------------------------- characters

Code == [a |-> 1, b |-> 2, c |-> 3, d |-> 4, e |-> 5, f |-> 6, g |-> 7,
         h |-> 8, i |-> 9, j |-> 10, k |-> 11, l |-> 12, m |-> 13, n |-> 14,
         o |-> 15, p |-> 16, q |-> 17, r |-> 18, s |-> 19, t |-> 20,
         u |-> 21, v |-> 22, w |-> 23, x |-> 24, y |-> 25, z |-> 26]

Space == 0

IsLower(ch) == ch >= Code.a /\ ch <= Code.z

IsUpper(ch) == ch > Code.z /\ ch <= Code.z + Code.z

IsAlpha(ch) == IsLower(ch) \/ IsUpper(ch)

\* str.lower on one character
Lower(ch) == IF IsUpper(ch) THEN ch - Code.z ELSE ch

\* the uppercase form of a lowercase letter (used to build raw inputs)
Upper(ch) == IF IsLower(ch) THEN ch + Code.z ELSE ch

W(c1, c2, c3, c4, c5) == <<Code[c1], Code[c2], Code[c3], Code[c4], Code[c5]>>

\* The words the model draws dictionaries, targets and replies from.
WordList ==
  << W("s","a","s","s","y"), W("a","n","g","l","e"),
     W("a","r","i","s","e"), W("a","p","p","l","e"),
     W("r","a","i","s","e"), W("s","i","s","s","y"),
     W("t","a","b","l","e") >>

Min(x, y) == IF x <= y THEN x ELSE y

Universe == {WordList[k] : k \in 1..Min(NumWords, Len(WordList))}

ReplyWords == {WordList[k] : k \in 1..Min(NumReplies, Len(WordList))}

\* ------------------------------------------------- wordle_utils.py helpers

\* str.strip: drop leading and trailing whitespace
RECURSIVE LStrip(_)
LStrip(s) == IF s # <<>> /\ Head(s) = Space THEN LStrip(Tail(s)) ELSE s

RECURSIVE RStrip(_)
RStrip(s) ==
  IF s # <<>> /\ s[Len(s)] = Space THEN RStrip(SubSeq(s, 1, Len(s) - 1)) ELSE s

normalize_word(word) ==
  LET t == RStrip(LStrip(word)) IN [k \in 1..Len(t) |-> Lower(t[k])]

\* the check without word.isalpha()
is_valid_five_letter_word_NoAlpha(word) == Len(word) = WordLen

is_valid_five_letter_word(word) ==
  Len(word) = WordLen /\ \A k \in 1..Len(word) : IsAlpha(word[k])

GGGGG == [k \in 1..WordLen |-> "G"]

ValueError == <<"ValueError">>

\* pass 1 that marks nothing
Greens_AllBlack(guess, target) == [k \in 1..WordLen |-> "B"]

\* pass 1: feedback[i] = "G" where guess[i] == target_chars[i]
Greens(guess, target) ==
  [k \in 1..WordLen |-> IF guess[k] = target[k] THEN "G" ELSE "B"]

\* pass 1 that leaves target_chars whole
GreenSlots_None(guess, target) == {}

\* the positions of target_chars set to None by pass 1
GreenSlots(guess, target) == {k \in 1..WordLen : guess[k] = target[k]}

\* target_chars.index(ch) over the slots not yet set to None
FirstSlot(ch, target, used) ==
  CHOOSE k \in 1..WordLen :
    /\ k \notin used /\ target[k] = ch
    /\ \A m \in 1..(k - 1) : m \in used \/ target[m] # ch

\* pass 2 that asks "ch in target" and consumes nothing
Yellows_AnyOccurrence(k, guess, target, fb, used) ==
  [i \in 1..WordLen |->
     IF fb[i] = "G" THEN "G"
     ELSE IF \E m \in 1..WordLen : target[m] = guess[i] THEN "Y" ELSE "B"]

\* pass 2: left to right, a non-green position whose letter is still in
\* target_chars becomes "Y" and consumes the first such slot
RECURSIVE Yellows(_, _, _, _, _)
Yellows(k, guess, target, fb, used) ==
  IF k > WordLen THEN fb
  ELSE IF fb[k] = "G" THEN Yellows(k + 1, guess, target, fb, used)
  ELSE IF \E m \in 1..WordLen : m \notin used /\ target[m] = guess[k]
       THEN Yellows(k + 1, guess, target, [fb EXCEPT ![k] = "Y"],
                    used \cup {FirstSlot(guess[k], target, used)})
       ELSE Yellows(k + 1, guess, target, fb, used)

compute_wordle_feedback(guess0, target0) ==
  LET guess == normalize_word(guess0)
      target == normalize_word(target0)
  IN IF ~(is_valid_five_letter_word(guess) /\ is_valid_five_letter_word(target))
     THEN ValueError
     ELSE Yellows(1, guess, target, Greens(guess, target),
                  GreenSlots(guess, target))

Emoji == [G |-> "green_square", Y |-> "yellow_square", B |-> "black_square"]

pattern_to_emojis(pattern) ==
  [k \in 1..Len(pattern) |->
     IF pattern[k] \in DOMAIN Emoji THEN Emoji[pattern[k]] ELSE Emoji.B]

\* A response body of the advisory service: json says whether json.loads
\* succeeds, guess is the text of the "guess" field ("" when it is absent).
ErrWord == "Model did not return a valid 5-letter 'guess'."

ErrJson == "Model did not return valid JSON with a 'guess' field."

parse_guess_from_json(content) ==
  IF ~content.json THEN <<FALSE, ErrJson>>
  ELSE LET guess == normalize_word(content.guess)
       IN IF ~is_valid_five_letter_word(guess) THEN <<FALSE, ErrWord>>
          ELSE <<TRUE, guess>>

\* ------------------------------------------------------- wordle_csp.py

\* Python's < on two strings
LexLess(u, v) ==
  \/ \E k \in 1..Min(Len(u), Len(v)) :
       /\ \A m \in 1..(k - 1) : u[m] = v[m]
       /\ u[k] < v[k]
  \/ /\ Len(u) < Len(v)
     /\ \A m \in 1..Len(u) : u[m] = v[m]

\* sorted(S) for a set of strings
RECURSIVE SortSet(_)
SortSet(S) ==
  IF S = {} THEN <<>>
  ELSE LET lo == CHOOSE u \in S : \A v \in S \ {u} : LexLess(u, v)
       IN <<lo>> \o SortSet(S \ {lo})

Range(s) == {s[k] : k \in 1..Len(s)}

\* set(word)
Letters(word) == Range(word)

\* A file is [found, lines]; open() raises FileNotFoundError when ~found.
MissingFile == [found |-> FALSE, lines |-> <<>>]

\* the RuntimeError load_word_list raises (a loaded list is never empty)
LoadError == <<>>

\* the load that keeps the lines as the file has them, without sorted({...})
load_word_list_FileOrder(file) ==
  IF ~file.found THEN LoadError
  ELSE SelectSeq([k \in 1..Len(file.lines) |-> normalize_word(file.lines[k])],
                 is_valid_five_letter_word)

load_word_list(file) ==
  IF ~file.found THEN LoadError
  ELSE LET lines == file.lines
           words == SelectSeq([k \in 1..Len(lines) |-> normalize_word(lines[k])],
                              is_valid_five_letter_word)
           clean == SortSet({w \in Range(words) : is_valid_five_letter_word(w)})
       IN IF clean = <<>> THEN LoadError ELSE clean

\* build_letter_freq: how many words of remaining hold the letter
build_letter_freq(remaining) ==
  [ch \in UNION {Letters(w) : w \in Range(remaining)} |->
     Cardinality({k \in 1..Len(remaining) :
                    /\ is_valid_five_letter_word(remaining[k])
                    /\ ch \in Letters(remaining[k])})]

RECURSIVE SumFreq(_, _)
SumFreq(S, freq) ==
  IF S = {} THEN 0
  ELSE LET ch == CHOOSE x \in S : TRUE
       IN (IF ch \in DOMAIN freq THEN freq[ch] ELSE 0) + SumFreq(S \ {ch}, freq)

score_word(word, freq) == SumFreq(Letters(word), freq)

\* KeyLess with the last component compared downwards, as min would
KeyLess_LexDown(u, v, freq) ==
  LET su == score_word(u, freq)
      sv == score_word(v, freq)
      du == Cardinality(Letters(u))
      dv == Cardinality(Letters(v))
  IN \/ su < sv
     \/ su = sv /\ du < dv
     \/ su = sv /\ du = dv /\ LexLess(v, u)

\* Python's < on the key tuples (score, len(set(w)), w)
KeyLess(u, v, freq) ==
  LET su == score_word(u, freq)
      sv == score_word(v, freq)
      du == Cardinality(Letters(u))
      dv == Cardinality(Letters(v))
  IN \/ su < sv
     \/ su = sv /\ du < dv
     \/ su = sv /\ du = dv /\ LexLess(u, v)

\* RuntimeError("No valid candidates available."): no word is empty
NoCandidates == <<>>

\* max(candidates, key=...): the first element no later one exceeds
MaxByKey(candidates, freq) ==
  LET k == CHOOSE k \in 1..Len(candidates) :
             /\ \A m \in 1..Len(candidates) :
                  ~KeyLess(candidates[k], candidates[m], freq)
             /\ \A m \in 1..(k - 1) :
                  KeyLess(candidates[m], candidates[k], freq)
  IN candidates[k]

\* best_next_guess without the fallback to the whole pool
best_next_guess_NoFallback(remaining, tried) ==
  LET freq == build_letter_freq(remaining)
      untried(w) == w \notin tried /\ is_valid_five_letter_word(w)
      candidates == SelectSeq(remaining, untried)
  IN IF candidates = <<>> THEN NoCandidates ELSE MaxByKey(candidates, freq)

\* best_next_guess without the "w not in tried" filter
best_next_guess_IgnoresTried(remaining, tried) ==
  LET freq == build_letter_freq(remaining)
      candidates == SelectSeq(remaining, is_valid_five_letter_word)
  IN IF candidates = <<>> THEN NoCandidates ELSE MaxByKey(candidates, freq)

best_next_guess(remaining, tried) ==
  LET freq == build_letter_freq(remaining)
      untried(w) == w \notin tried /\ is_valid_five_letter_word(w)
      first == SelectSeq(remaining, untried)
      candidates == IF first # <<>> THEN first
                    ELSE SelectSeq(remaining, is_valid_five_letter_word)
  IN IF candidates = <<>> THEN NoCandidates ELSE MaxByKey(candidates, freq)

\* ------------------------------------------------- inputs of one session

\* the "solution" field of the provider's response; NoSolution stands for a
\* failed request, a non-200 status or a missing field
NoSolution == <<>>

SolutionReplies ==
  Universe \cup {[k \in 1..WordLen |-> Upper(WordList[1][k])], NoSolution}

\* get_today_wordle_solution: the field is validated, then normalized
get_today_wordle_solution(sol) ==
  IF sol # NoSolution /\ is_valid_five_letter_word(sol)
  THEN normalize_word(sol) ELSE NoSolution

RECURSIVE Reverse(_)
Reverse(s) == IF s = <<>> THEN <<>> ELSE Reverse(Tail(s)) \o <<Head(s)>>

Newline == <<Space>>

\* A dictionary file holding the words of S: a four-letter line that is
\* dropped, the words in descending order, each line ending in a newline,
\* and the first line again in uppercase with leading blanks.
FileOf(S) ==
  LET desc == Reverse(SortSet(S))
      body == [k \in 1..Len(desc) |-> desc[k] \o Newline]
      again == IF desc = <<>> THEN <<>>
               ELSE << <<Space, Space>>
                       \o [k \in 1..WordLen |-> Upper(desc[1][k])] \o Newline >>
  IN [found |-> TRUE,
      lines |-> << <<Code.a, Code.b, Code.c, Code.d>> \o Newline >>
                \o body \o again]

NumFileWords == 6

\* the words a dictionary file is made of
FileWords == {WordList[k] : k \in 1..Min(NumFileWords, Len(WordList))}

Files == {FileOf(S) : S \in SUBSET FileWords} \cup {MissingFile}

\* no response body received yet
NoContent == [json |-> FALSE, guess |-> <<Space>>]

\* The bodies the advisory service may answer with: the reply words (the
\* first of them in uppercase after a blank), a JSON object without a
\* usable "guess", and text that is not JSON.
Contents ==
  {[json |-> TRUE,
    guess |-> IF w = WordList[1]
              THEN <<Space>> \o [k \in 1..WordLen |-> Upper(w[k])] ELSE w] :
     w \in ReplyWords}
  \cup {[json |-> TRUE, guess |-> <<>>],
        [json |-> FALSE, guess |-> <<>>]}

\* -------------------------------------------------------------- the state

VARIABLES
  selector,       \* which command runs: "csp" or "gpt"
  pc,             \* where the handler is
  solution,       \* today's target
  word_list,      \* csp: the dictionary as loaded
  remaining,      \* csp: the candidate pool, a sorted list
  tried,          \* csp: the set of words guessed
  messages,       \* gpt: the conversation, a list of turns
  content,        \* gpt: the body of the last response received
  guessed_words,  \* gpt: the list of words guessed
  feedback_rows,  \* the emoji rows shown so far
  guess_count,    \* the attempt that solved, NoCount for None
  attempt,        \* the loop variable of "for attempt in range(1, 7)"
  outcome,        \* the result the embed ends with, "none" while running
  requests,       \* gpt: how many completions were requested
  iterations,     \* how many times the loop body was entered
  console,        \* the lines printed: attempt, guess, pattern
  words_file,     \* csp: the file at WORDS_PATH as open() found it
  call,           \* a function of the modules called on its own: the arguments
  result          \* what that call returned

vars == <<selector, pc, solution, word_list, remaining, tried, messages,
          content, guessed_words, feedback_rows, guess_count, attempt, outcome,
          requests, iterations, console, words_file, call, result>>

\* no function has been called on its own
NoCall == [fn |-> "none", done |-> FALSE]

NoResult == <<>>

Init ==
  /\ selector \in {"csp", "gpt"}
  /\ pc = "fetch"
  /\ solution = NoSolution
  /\ word_list = <<>>
  /\ remaining = <<>>
  /\ tried = {}
  /\ messages = <<>>
  /\ content = NoContent
  /\ guessed_words = <<>>
  /\ feedback_rows = <<>>
  /\ guess_count = NoCount
  /\ attempt = 0
  /\ outcome = "none"
  /\ requests = 0
  /\ iterations = 0
  /\ console = <<>>
  /\ words_file = MissingFile
  /\ call = NoCall
  /\ result = NoResult

\* the outcome lines of the embed
Solved == "Solved in {guess_count} guesses."

Exhausted == "failed to solve today's Wordle in 6 guesses."

SelectorFailed == "ChatGPT failed to produce a valid guess."

ApiError == "OpenAI API error"

\* the handler returns with an error embed
Abort(why) == pc' = "done" /\ outcome' = why

\* the fetch without the "return" after the error embed
Fetch_NoReturn ==
  /\ pc = "fetch"
  /\ \E sol \in SolutionReplies :
       /\ solution' = get_today_wordle_solution(sol)
       /\ pc' = IF selector = "csp" THEN "load" ELSE "client"
  /\ UNCHANGED <<words_file, call, result, outcome>>
  /\ UNCHANGED <<selector, word_list, remaining, tried, messages, content,
                 guessed_words, feedback_rows, guess_count, attempt, requests,
                 iterations, console>>

\* solution = get_today_wordle_solution(); if not solution: ... return
Fetch ==
  /\ pc = "fetch"
  /\ \E sol \in SolutionReplies :
       LET got == get_today_wordle_solution(sol)
       IN IF got = NoSolution
          THEN /\ Abort("Could not fetch today's Wordle.")
               /\ UNCHANGED solution
          ELSE /\ solution' = got
               /\ pc' = IF selector = "csp" THEN "load" ELSE "client"
               /\ UNCHANGED outcome
  /\ UNCHANGED <<words_file, call, result>>
  /\ UNCHANGED <<selector, word_list, remaining, tried, messages, content,
                 guessed_words, feedback_rows, guess_count, attempt, requests,
                 iterations, console>>

\* word_list = load_word_list(); remaining = word_list.copy(); tried = set()
LoadWordList ==
  /\ pc = "load"
  /\ \E file \in Files :
       LET loaded == load_word_list(file)
       IN /\ words_file' = file
          /\ IF loaded = LoadError
               THEN /\ Abort("Word list error")
                    /\ UNCHANGED <<word_list, remaining>>
               ELSE /\ word_list' = loaded
                    /\ remaining' = loaded
                    /\ pc' = "loop"
                    /\ UNCHANGED outcome
  /\ tried' = {}
  /\ UNCHANGED <<call, result>>
  /\ UNCHANGED <<selector, solution, messages, content, guessed_words,
                 feedback_rows, guess_count, attempt, requests, iterations,
                 console>>

\* the loop written as range(1, 8)
HasNext_OffByOne(k) == k <= MaxAttempts

\* "for attempt in range(1, 7)": is there a value after this one
HasNext(k) == k < MaxAttempts

\* where a loop body that neither broke nor returned goes on: the top of
\* the loop with the next value of the range, or the code after the loop
AfterBody(k, top) == IF HasNext(k) THEN top ELSE "finalize"

\* the loop without its break
IsSolved_Never(pattern) == FALSE

\* if pattern == "GGGGG": guess_count = attempt; break
IsSolved(pattern) == pattern = GGGGG

\* the pool left as it is
FilterPool_Unfiltered(pool, guess, pattern) == pool

\* the filter without "if new_remaining else remaining"
FilterPool_NoFallback(pool, guess, pattern) ==
  LET keep(c) == compute_wordle_feedback(guess, c) = pattern
  IN SelectSeq(pool, keep)

\* the filter with the comparison negated
FilterPool_Negated(pool, guess, pattern) ==
  LET keep(c) == compute_wordle_feedback(guess, c) # pattern
      new_remaining == SelectSeq(pool, keep)
  IN IF new_remaining # <<>> THEN new_remaining ELSE pool

\* the filter that never drops the word just guessed
FilterPool_KeepsGuess(pool, guess, pattern) ==
  LET keep(c) == c = guess \/ compute_wordle_feedback(guess, c) = pattern
      new_remaining == SelectSeq(pool, keep)
  IN IF new_remaining # <<>> THEN new_remaining ELSE pool

\* new_remaining = [c for c in remaining if feedback(guess, c) == pattern]
\* remaining = new_remaining if new_remaining else remaining
FilterPool(pool, guess, pattern) ==
  LET keep(c) == compute_wordle_feedback(guess, c) = pattern
      new_remaining == SelectSeq(pool, keep)
  IN IF new_remaining # <<>> THEN new_remaining ELSE pool

\* one pass of the body of the loop of wordle_csp
CspAttempt ==
  /\ pc = "loop"
  /\ attempt' = attempt + 1
  /\ iterations' = iterations + 1
  /\ LET guess == best_next_guess(remaining, tried)
         pattern == compute_wordle_feedback(guess, solution)
     IN IF guess = NoCandidates
        THEN /\ Abort("Solver error")
             /\ UNCHANGED <<remaining, tried, feedback_rows, guess_count,
                            console>>
        ELSE /\ tried' = tried \cup {guess}
             /\ console' = Append(console, [attempt |-> attempt',
                                            guess |-> guess,
                                            pattern |-> pattern])
             /\ feedback_rows' = Append(feedback_rows,
                                        pattern_to_emojis(pattern))
             /\ UNCHANGED outcome
             /\ IF IsSolved(pattern)
                THEN /\ guess_count' = attempt'
                     /\ pc' = "finalize"
                     /\ UNCHANGED remaining
                ELSE /\ remaining' = FilterPool(remaining, guess, pattern)
                     /\ UNCHANGED guess_count
                     /\ pc' = AfterBody(attempt', "loop")
  /\ UNCHANGED <<words_file, call, result>>
  /\ UNCHANGED <<selector, solution, word_list, messages, content,
                 guessed_words, requests>>

\* ------------------------------------------------- wordle_gpt5_mini.py

Turn(text) == [role |-> "user", content |-> text]

\* messages = [system prompt, "New game. ... Provide your first guess."]
SeedMessages ==
  << [role |-> "system", content |-> <<"system_prompt">>],
     Turn(<<"new_game">>) >>

\* oa_client = get_client(); messages = [...]; guessed_words = []
GetClient ==
  /\ pc = "client"
  /\ \E ok \in BOOLEAN :
       IF ok
       THEN /\ messages' = SeedMessages
            /\ pc' = "request"
            /\ UNCHANGED outcome
       ELSE /\ Abort("OpenAI error")
            /\ UNCHANGED messages
  /\ UNCHANGED <<words_file, call, result>>
  /\ UNCHANGED <<selector, solution, word_list, remaining, tried, content,
                 guessed_words, feedback_rows, guess_count, attempt, requests,
                 iterations, console>>

\* the body of the loop without the feedback turn at its end
Evaluate_NoFeedbackTurn(guess, msgs) ==
  IF guess \in Range(guessed_words)
  THEN /\ messages' = Append(msgs, Turn(<<"already_tried", guess>>))
       /\ pc' = AfterBody(attempt', "request")
       /\ UNCHANGED <<guessed_words, feedback_rows, guess_count, console,
                      outcome>>
  ELSE LET pattern == compute_wordle_feedback(guess, solution)
       IN /\ guessed_words' = Append(guessed_words, guess)
          /\ console' = Append(console, [attempt |-> attempt',
                                         guess |-> guess,
                                         pattern |-> pattern])
          /\ feedback_rows' = Append(feedback_rows, pattern_to_emojis(pattern))
          /\ messages' = msgs
          /\ UNCHANGED outcome
          /\ IF IsSolved(pattern)
             THEN guess_count' = attempt' /\ pc' = "finalize"
             ELSE pc' = AfterBody(attempt', "request") /\ UNCHANGED guess_count

\* the body of the loop from "guess: str = guess_or_err" on, msgs being the
\* conversation at that point
Evaluate(guess, msgs) ==
  IF guess \in Range(guessed_words)
  THEN /\ messages' = Append(msgs, Turn(<<"already_tried", guess>>))
       /\ pc' = AfterBody(attempt', "request")
       /\ UNCHANGED <<guessed_words, feedback_rows, guess_count, console,
                      outcome>>
  ELSE LET pattern == compute_wordle_feedback(guess, solution)
       IN /\ guessed_words' = Append(guessed_words, guess)
          /\ console' = Append(console, [attempt |-> attempt',
                                         guess |-> guess,
                                         pattern |-> pattern])
          /\ feedback_rows' = Append(feedback_rows, pattern_to_emojis(pattern))
          /\ UNCHANGED outcome
          /\ IF IsSolved(pattern)
             THEN /\ guess_count' = attempt'
                  /\ pc' = "finalize"
                  /\ messages' = msgs
             ELSE /\ messages' = Append(msgs, Turn(<<"feedback", guess, pattern>>))
                  /\ pc' = AfterBody(attempt', "request")
                  /\ UNCHANGED guess_count

\* the top of the loop body: the first request of the iteration
GptRequest ==
  /\ pc = "request"
  /\ attempt' = attempt + 1
  /\ iterations' = iterations + 1
  /\ requests' = requests + 1
  /\ \/ /\ Abort(ApiError)
        /\ UNCHANGED <<messages, content, guessed_words, feedback_rows,
                       guess_count, console>>
     \/ \E body \in Contents :
          LET parsed == parse_guess_from_json(body)
          IN /\ content' = body
             /\ IF ~parsed[1]
                THEN /\ messages' =
                          Append(messages, Turn(<<"invalid", parsed[2]>>))
                     /\ pc' = "retry"
                     /\ UNCHANGED <<guessed_words, feedback_rows, guess_count,
                                    console, outcome>>
                ELSE Evaluate(parsed[2], messages)
  /\ UNCHANGED <<words_file, call, result>>
  /\ UNCHANGED <<selector, solution, word_list, remaining, tried>>

\* the retry that asks again after a second invalid response
GptRetry_Again ==
  /\ pc = "retry"
  /\ attempt' = attempt
  /\ requests' = requests + 1
  /\ \/ /\ Abort(ApiError)
        /\ UNCHANGED <<messages, content, guessed_words, feedback_rows,
                       guess_count, console>>
     \/ \E body \in Contents :
          LET parsed == parse_guess_from_json(body)
          IN /\ content' = body
             /\ IF ~parsed[1]
                THEN /\ messages' =
                          Append(messages, Turn(<<"invalid", parsed[2]>>))
                     /\ pc' = "retry"
                     /\ UNCHANGED <<guessed_words, feedback_rows, guess_count,
                                    console, outcome>>
                ELSE Evaluate(parsed[2], messages)
  /\ UNCHANGED <<words_file, call, result>>
  /\ UNCHANGED <<selector, solution, word_list, remaining, tried, iterations>>

\* the "quick retry" after the corrective turn
GptRetry ==
  /\ pc = "retry"
  /\ attempt' = attempt
  /\ requests' = requests + 1
  /\ \/ /\ Abort(ApiError)
        /\ UNCHANGED <<messages, content, guessed_words, feedback_rows,
                       guess_count, console>>
     \/ \E body \in Contents :
          LET parsed == parse_guess_from_json(body)
          IN /\ content' = body
             /\ IF ~parsed[1]
                THEN /\ Abort(SelectorFailed)
                     /\ UNCHANGED <<messages, guessed_words, feedback_rows,
                                    guess_count, console>>
                ELSE Evaluate(parsed[2], messages)
  /\ UNCHANGED <<words_file, call, result>>
  /\ UNCHANGED <<selector, solution, word_list, remaining, tried, iterations>>

\* the code after the loop, the same in both commands
Finalize ==
  /\ pc = "finalize"
  /\ outcome' = IF guess_count = NoCount THEN Exhausted ELSE Solved
  /\ pc' = "done"
  /\ UNCHANGED <<words_file, call, result>>
  /\ UNCHANGED <<selector, solution, word_list, remaining, tried, messages,
                 content, guessed_words, feedback_rows, guess_count, attempt,
                 requests, iterations, console>>

Next ==
  \/ Fetch
  \/ LoadWordList
  \/ CspAttempt
  \/ GetClient
  \/ GptRequest
  \/ GptRetry
  \/ Finalize

Spec == Init /\ [][Next]_vars

\* the handler is a coroutine the event loop runs to completion
FairSpec == Spec /\ WF_vars(Next)

\* ------------------------------------------ the functions called on their own

NumLetters == 2

\* the valid words over the first NumLetters letters
SmallWords == [1..WordLen -> 1..NumLetters]

Digit == Code.z + Code.z + 1

Sample == <<Code.a, Code.b, Code.a, Code.a, Code.b>>

\* strings normalize_word has work on, and strings it cannot make valid:
\* " ABAAB ", "abaa", "abaaba", "ab1ab", "ab ab", "abaa ", ""
RawStrings ==
  {<<Space>> \o [k \in 1..WordLen |-> Upper(Sample[k])] \o <<Space>>,
   SubSeq(Sample, 1, WordLen - 1),
   Sample \o <<Code.a>>,
   [Sample EXCEPT ![3] = Digit],
   [Sample EXCEPT ![3] = Space],
   SubSeq(Sample, 1, WordLen - 1) \o <<Space>>,
   <<>>}

FeedbackArgs == SmallWords \cup RawStrings

FeedbackCalls ==
  {[fn |-> "compute_wordle_feedback", done |-> FALSE,
    guess |-> g, target |-> t] : g \in FeedbackArgs, t \in FeedbackArgs}

SelectCalls ==
  {[fn |-> "best_next_guess", done |-> FALSE,
    remaining |-> SortSet(P), tried |-> T] :
     P \in SUBSET Universe, T \in SUBSET Universe}

UnitInit ==
  /\ selector = "none"
  /\ pc = "call"
  /\ solution = NoSolution
  /\ word_list = <<>>
  /\ remaining = <<>>
  /\ tried = {}
  /\ messages = <<>>
  /\ content = NoContent
  /\ guessed_words = <<>>
  /\ feedback_rows = <<>>
  /\ guess_count = NoCount
  /\ attempt = 0
  /\ outcome = "none"
  /\ requests = 0
  /\ iterations = 0
  /\ console = <<>>
  /\ words_file = MissingFile
  /\ call \in FeedbackCalls \/ call \in SelectCalls
  /\ result = NoResult

Returns(value) ==
  /\ ~call.done
  /\ result' = value
  /\ call' = [call EXCEPT !.done = TRUE]
  /\ UNCHANGED <<selector, pc, solution, word_list, remaining, tried,
                 messages, content, guessed_words, feedback_rows, guess_count,
                 attempt, outcome, requests, iterations, console, words_file>>

CallFeedback ==
  /\ call.fn = "compute_wordle_feedback"
  /\ Returns(compute_wordle_feedback(call.guess, call.target))

CallSelect ==
  /\ call.fn = "best_next_guess"
  /\ Returns(best_next_guess(call.remaining, call.tried))

UnitNext ==
  \/ CallFeedback
  \/ CallSelect

UnitSpec == UnitInit /\ [][UnitNext]_vars

TypeOK ==
  /\ selector \in {"csp", "gpt"}
  /\ attempt \in 0..MaxAttempts
  /\ guess_count \in 0..MaxAttempts

\* ------------------------------------------------------------ the claims

Last(s) == s[Len(s)]

GreenRow == pattern_to_emojis(GGGGG)

Listed == solution \in Range(word_list)

\* C1 (as claimed): in the externally-advised loop a repeated guess does not
\* consume an attempt, so the k-th fresh guess is evaluated at attempt k.
C1_RepeatKeepsAttempt ==
  selector = "gpt" => \A k \in DOMAIN console : console[k].attempt = k

\* C2 (as claimed): a solve that ends Solved(attempt) has attempt in 1..6 and
\* a recorded row number attempt, which is all green.
C2_SolvedRowIsGreen ==
  outcome = Solved =>
    /\ guess_count \in 1..MaxAttempts
    /\ Len(feedback_rows) >= guess_count
    /\ feedback_rows[guess_count] = GreenRow

\* C3 (as claimed): the CSP selector never returns a word it already tried,
\* whatever the dictionary and the target.
C3_NeverRepeats ==
  selector = "csp" =>
    \A j, k \in DOMAIN console : j < k => console[j].guess # console[k].guess

\* C3 (amended): the guess of a CSP attempt is a word not tried before
\* whenever the pool holds an untried word at that attempt, and the guesses
\* of a solve whose target is in the dictionary are pairwise different.
C3_FreshWhenUntried ==
  /\ [](Listed => C3_NeverRepeats)
  /\ [][(pc = "loop" /\ Range(remaining) \ tried # {}) =>
          /\ Len(console') = Len(console) + 1
          /\ Last(console').guess \in Range(remaining) \ tried]_vars

C3_Witness ==
  /\ selector = "csp" /\ Listed /\ Len(console) >= 2 /\ pc = "loop"
  /\ Range(remaining) \ tried # {}

\* The selection rule as the specification words it, on the pool and the
\* tried set the selector is about to be called with.
Untried == Range(remaining) \ tried

\* the sum, over the distinct letters of w, of the number of pool words
\* holding the letter
CoverageScore(w) ==
  Cardinality({lc \in Letters(w) \X Range(remaining) : lc[1] \in Letters(lc[2])})

TopScore == {w \in Untried : \A v \in Untried : CoverageScore(v) <= CoverageScore(w)}

TopDistinct ==
  {w \in TopScore :
     \A v \in TopScore : Cardinality(Letters(v)) <= Cardinality(Letters(w))}

\* C4 (as claimed): the CSP selector returns an untried word of maximum
\* score, among those one with the most distinct letters, and among those
\* the lexicographically smallest.
C4_LexSmallest ==
  (pc = "loop" /\ Untried # {}) =>
    LET guess == best_next_guess(remaining, tried)
    IN /\ guess \in TopDistinct
       /\ \A v \in TopDistinct \ {guess} : LexLess(guess, v)

\* C4 (amended): the CSP selector returns an untried word of maximum score,
\* among those one with the most distinct letters, and among those the
\* lexicographically greatest.
C4_LexGreatest ==
  (pc = "loop" /\ Untried # {}) =>
    LET guess == best_next_guess(remaining, tried)
    IN /\ guess \in TopDistinct
       /\ \A v \in TopDistinct \ {guess} : LexLess(v, guess)

C4_Witness ==
  /\ pc = "loop"
  /\ Cardinality(TopDistinct) >= 2
  /\ best_next_guess(remaining, tried) \in TopDistinct

\* an upper bound on the steps a session still takes, by where the
\* handler is and how many loop bodies it has entered
StepsLeft ==
  LET bodies == 2 * (MaxAttempts - iterations)
  IN CASE pc = "done" -> 0
       [] pc = "finalize" -> 1
       [] pc \in {"loop", "request"} -> 2 + bodies
       [] pc = "retry" -> 3 + bodies
       [] pc \in {"load", "client"} -> 3 + 2 * MaxAttempts
       [] pc = "fetch" -> 4 + 2 * MaxAttempts

C6_ExhaustedNoGreen ==
  outcome = Exhausted =>
    \A k \in DOMAIN feedback_rows : feedback_rows[k] # GreenRow

C6_Witness ==
  outcome = Exhausted /\ Len(feedback_rows) = MaxAttempts

\* a step in which a response body arrived
Received == requests' = requests + 1 /\ content' \in Contents /\ outcome' # ApiError

Invalid(body) == ~parse_guess_from_json(body)[1]

CorrectiveTurns(msgs) ==
  Cardinality({k \in DOMAIN msgs : msgs[k].content[1] = "invalid"})

\* C7: in the externally-advised loop a response that fails parsing gets one
\* corrective turn and one more request within the same attempt, and when
\* the second response fails too the solve ends at once in the "failed to
\* produce a valid guess" outcome, with no row recorded and no turn added.
C7_SingleRetry ==
  [][/\ (pc = "request" /\ Received /\ Invalid(content')) =>
          /\ messages' = Append(messages,
                                Turn(<<"invalid", parse_guess_from_json(content')[2]>>))
          /\ pc' = "retry" /\ outcome' = "none"
          /\ UNCHANGED <<feedback_rows, guessed_words, guess_count>>
     /\ pc = "retry" =>
          /\ requests' = requests + 1
          /\ attempt' = attempt
          /\ pc' # "retry"
          /\ CorrectiveTurns(messages') = CorrectiveTurns(messages)
     /\ (pc = "retry" /\ Received /\ Invalid(content')) =>
          /\ outcome' = SelectorFailed /\ pc' = "done"
          /\ UNCHANGED <<messages, feedback_rows, guessed_words, guess_count>>
     /\ pc = "done" => UNCHANGED vars
     /\ outcome' = SelectorFailed =>
          (outcome = SelectorFailed \/ (pc = "retry" /\ Invalid(content')))]_vars

C7_Witness ==
  /\ outcome = SelectorFailed
  /\ Len(feedback_rows) >= 1
  /\ Last(messages).content[1] = "invalid"

ConsistentWith(c, row) ==
  compute_wordle_feedback(row.guess, c) = row.pattern

\* C8 (as claimed): at every point of a CSP solve every pool word is
\* consistent with every recorded (guess, pattern) pair.
C8_PoolConsistent ==
  selector = "csp" =>
    \A k \in DOMAIN console : \A c \in Range(remaining) :
      ConsistentWith(c, console[k])

\* C8 (amended): at every point of a CSP solve whose target is in the loaded
\* dictionary every pool word is consistent with every recorded pair whose
\* pattern is not all green.
C8_PoolConsistentListed ==
  (selector = "csp" /\ Listed) =>
    \A k \in DOMAIN console : \A c \in Range(remaining) :
      console[k].pattern # GGGGG => ConsistentWith(c, console[k])

C8_Witness ==
  /\ selector = "csp" /\ Listed /\ pc = "loop"
  /\ Len(console) >= 2
  /\ Len(remaining) < Len(word_list)

\* C9: after a guess that does not solve, the pool is the set of the words
\* of the previous pool whose feedback for the guess equals the pattern, or
\* the previous pool unchanged when no word qualifies; the pool never grows
\* after the load and holds only words of the loaded dictionary.
C9_PoolUpdate ==
  [][/\ (pc = "loop" /\ pc' # "done" /\ Last(console').pattern # GGGGG) =>
          LET kept == {c \in Range(remaining) :
                         ConsistentWith(c, Last(console'))}
          IN /\ kept # {} => Range(remaining') = kept
             /\ kept = {} => remaining' = remaining
     /\ pc # "load" => Range(remaining') \subseteq Range(remaining)
     /\ Range(remaining') \subseteq Range(word_list')]_vars

C9_Witness ==
  /\ selector = "csp" /\ pc = "loop"
  /\ Len(console) >= 1
  /\ Len(word_list) >= 2
  /\ remaining = word_list

\* C10: a target that is in the loaded dictionary is in the pool after every
\* attempt of a CSP solve, and filtering the pool by any valid guess and the
\* target's feedback for it retains the target.
C10_TargetRetained ==
  (selector = "csp" /\ Listed) =>
    /\ solution \in Range(remaining)
    /\ \A g \in Universe :
         solution \in
           Range(FilterPool(remaining, g, compute_wordle_feedback(g, solution)))

C10_Witness ==
  /\ selector = "csp" /\ Listed /\ pc = "loop"
  /\ Len(console) >= 1
  /\ Len(remaining) >= 2
  /\ Len(remaining) < Len(word_list)

\* how often the letter x occurs in the string s
Count(x, s) == Cardinality({k \in 1..Len(s) : s[k] = x})

\* how many positions of g hold x and are marked green or yellow
Marked(x, g, fb) ==
  Cardinality({k \in 1..WordLen : g[k] = x /\ fb[k] \in {"G", "Y"}})

\* compute_wordle_feedback was called on its own and has returned
FeedbackReturned == call.fn = "compute_wordle_feedback" /\ call.done

CallGuess == normalize_word(call.guess)

CallTarget == normalize_word(call.target)

BothValid ==
  is_valid_five_letter_word(CallGuess) /\ is_valid_five_letter_word(CallTarget)

\* C11: for valid guess and target and every letter x, the positions of the
\* guess that hold x and are marked green or yellow number exactly
\* min(count of x in the guess, count of x in the target).
C11_MarkedCount ==
  FeedbackReturned /\ BothValid =>
    \A x \in Code.a..Code.z :
      Marked(x, CallGuess, result) = Min(Count(x, CallGuess), Count(x, CallTarget))

\* a letter the guess holds more often than the target: one copy yellow,
\* one copy black
C11_Witness ==
  /\ FeedbackReturned /\ BothValid
  /\ \E x \in Code.a..Code.z :
       /\ Count(x, CallGuess) > Count(x, CallTarget) /\ Count(x, CallTarget) > 0
       /\ \E i, j \in 1..WordLen :
            /\ CallGuess[i] = x /\ result[i] = "Y"
            /\ CallGuess[j] = x /\ result[j] = "B"

\* C12: the feedback of a valid word against itself is all green.
C12_SelfIsGreen ==
  FeedbackReturned /\ BothValid /\ CallGuess = CallTarget => result = GGGGG

\* a word of two letters against itself, once written differently
C12_Witness ==
  /\ FeedbackReturned /\ BothValid
  /\ CallGuess = CallTarget /\ call.guess # call.target
  /\ Cardinality(Letters(CallGuess)) > 1
  /\ result = GGGGG

\* what makes a normalized string no five-letter word
Malformed(word) ==
  Len(word) # WordLen \/ \E k \in 1..Len(word) : ~IsAlpha(word[k])

\* C13: when the guess or the target, trimmed and lower-cased, has not
\* exactly five characters or holds a character that is no letter, the
\* call fails with the invalid-word error and returns no pattern.
C13_InvalidWordError ==
  FeedbackReturned /\ (Malformed(CallGuess) \/ Malformed(CallTarget)) =>
    result = ValueError

\* a valid guess against five characters that trim to four, and against
\* five characters one of which is a digit
C13_Witness ==
  /\ FeedbackReturned /\ ~Malformed(CallGuess)
  /\ Len(call.target) = WordLen
  /\ Len(CallTarget) < WordLen \/ Digit \in Range(CallTarget)
  /\ result = ValueError

\* the target's copies of x that no green position matched
Unmatched(x, g, t) ==
  Cardinality({m \in 1..WordLen : t[m] = x /\ g[m] # t[m]})

\* the non-green positions of the guess before i that hold the letter at i
EarlierClaims(i, g, t) ==
  Cardinality({j \in 1..(i - 1) : g[j] = g[i] /\ g[j] # t[j]})

\* C18: position i is green exactly when guess and target agree there; a
\* non-green position is yellow exactly when the target's copies of its
\* letter outside the green positions outnumber the earlier non-green
\* positions of the guess holding that letter, and black otherwise.
C18_TwoPassFeedback ==
  FeedbackReturned /\ BothValid =>
    \A i \in 1..WordLen :
      result[i] =
        IF CallGuess[i] = CallTarget[i] THEN "G"
        ELSE IF Unmatched(CallGuess[i], CallGuess, CallTarget)
                  > EarlierClaims(i, CallGuess, CallTarget)
             THEN "Y" ELSE "B"

\* one letter green at one position, yellow at a second and black at a
\* third because the target's copies ran out
C18_Witness ==
  /\ FeedbackReturned /\ BothValid
  /\ \E i, j, k \in 1..WordLen :
       /\ CallGuess[i] = CallGuess[j] /\ CallGuess[j] = CallGuess[k]
       /\ result[i] = "G" /\ result[j] = "Y" /\ result[k] = "B"
       /\ j < k

CouldNotFetch == "Could not fetch today's Wordle."

\* nothing after the fetch has run: no dictionary, no conversation, no
\* request, no loop body, no guess, no row
NothingStarted ==
  /\ word_list = <<>> /\ words_file = MissingFile
  /\ remaining = <<>> /\ tried = {}
  /\ messages = <<>> /\ content = NoContent /\ requests = 0
  /\ iterations = 0 /\ attempt = 0
  /\ guessed_words = <<>> /\ console = <<>> /\ feedback_rows = <<>>
  /\ guess_count = NoCount

\* C14: when the target provider returns absence, the solve is over right
\* after the one fetch, with the outcome "Could not fetch today's Wordle.":
\* the dictionary is not loaded, the advisory service is not contacted, no
\* guess is selected and no row is recorded, under either selector.
C14_AbsentTargetEndsSolve ==
  /\ solution = NoSolution /\ pc # "fetch" =>
       pc = "done" /\ outcome = CouldNotFetch /\ NothingStarted
  /\ outcome = CouldNotFetch => solution = NoSolution

\* the externally-advised command after a fetch that returned None
C14_Witness ==
  /\ selector = "gpt" /\ pc = "done"
  /\ solution = NoSolution /\ outcome = CouldNotFetch

\* the lines of a file that are five letters once trimmed and lower-cased
ValidLines(file) ==
  {w \in {normalize_word(file.lines[k]) : k \in 1..Len(file.lines)} :
     ~Malformed(w)}

\* the CSP command has opened the dictionary file
Loaded == selector = "csp" /\ solution # NoSolution /\ pc \notin {"fetch", "load"}

WordListError == "Word list error"

\* C15: the dictionary load yields the sorted, duplicate-free list of
\* exactly the lines that are valid five-letter words after normalization;
\* when the file is missing or has no such line the CSP solve ends as
\* "Word list error" before the loop: no guess, no row.
C15_DictionaryLoad ==
  Loaded =>
    IF words_file.found /\ ValidLines(words_file) # {}
    THEN /\ Range(word_list) = ValidLines(words_file)
         /\ \A i, j \in 1..Len(word_list) :
              i < j => LexLess(word_list[i], word_list[j])
         /\ outcome # WordListError
    ELSE /\ pc = "done" /\ outcome = WordListError
         /\ word_list = <<>> /\ remaining = <<>> /\ tried = {}
         /\ iterations = 0 /\ attempt = 0
         /\ console = <<>> /\ feedback_rows = <<>> /\ guess_count = NoCount

\* a file two lines of which are dropped, loaded as three words, a guess made
C15_Witness ==
  /\ Loaded /\ words_file.found
  /\ Len(words_file.lines) > Len(word_list) + 1
  /\ Len(word_list) > 2
  /\ Len(console) > 0

IsPrefix(s, t) == Len(s) <= Len(t) /\ SubSeq(t, 1, Len(s)) = s

IsFeedbackTurn(turn) == turn.role = "user" /\ turn.content[1] = "feedback"

\* the feedback-report turns of a conversation, in order
FeedbackTurns(msgs) == SelectSeq(msgs, IsFeedbackTurn)

\* the report of a recorded guess
ReportOf(row) == Turn(<<"feedback", row.guess, row.pattern>>)

\* C19: in the externally-advised loop the conversation only grows at its
\* end; a step that records a guess that does not solve appends the report
\* of that guess and its pattern; so whenever a request is about to be sent
\* the conversation holds, in order, the reports of all recorded guesses.
C19_ConversationAppendOnly ==
  /\ [][IsPrefix(messages, messages')]_vars
  /\ [][Len(console') > Len(console) /\ Last(console').pattern # GGGGG =>
          /\ selector = "gpt" => messages' # messages
          /\ selector = "gpt" => Last(messages') = ReportOf(Last(console'))]_vars
  /\ [](selector = "gpt" /\ pc \in {"request", "retry"} =>
          FeedbackTurns(messages) =
            [k \in 1..Len(console) |-> ReportOf(console[k])])

\* a request about to be sent after two recorded guesses and a turn of
\* another kind
C19_Witness ==
  /\ selector = "gpt" /\ pc = "request"
  /\ Len(console) > 1
  /\ Len(messages) > Len(SeedMessages) + Len(console)

\* best_next_guess was called on its own and has returned
SelectReturned == call.fn = "best_next_guess" /\ call.done

CallPool == Range(call.remaining)

\* the sum, over the distinct letters of w, of the pool words holding it
PoolScore(w) ==
  Cardinality({lc \in Letters(w) \X CallPool : lc[1] \in Letters(lc[2])})

\* C20: the selector returns a word of the pool whenever the pool is not
\* empty: an untried one if the pool has one, otherwise a best-scoring word
\* of the whole pool, tried or not; it fails only on the empty pool.
C20_SelectFromPool ==
  SelectReturned =>
    IF CallPool = {} THEN result = NoCandidates
    ELSE /\ result \in CallPool
         /\ CallPool \ call.tried # {} => result \notin call.tried
         /\ CallPool \ call.tried = {} =>
              \A v \in CallPool : PoolScore(v) <= PoolScore(result)

\* a pool of several words, all of them tried, not all of one score
C20_Witness ==
  /\ SelectReturned
  /\ CallPool # {} /\ CallPool \subseteq call.tried
  /\ \E v \in CallPool : PoolScore(v) < PoolScore(result)
  /\ result \in call.tried

SolverError == "Solver error"

\* C21: in a CSP solve, once the dictionary is loaded the pool is never
\* empty, so best_next_guess never raises inside the loop and the outcome
\* "Solver error" is never reached.
C21_PoolNeverEmpty ==
  /\ selector = "csp" /\ word_list # <<>> => remaining # <<>>
  /\ outcome # SolverError

\* a non-solving guess that no pool word is consistent with: the filter
\* came out empty and the pool was kept
C21_Witness ==
  /\ selector = "csp" /\ console # <<>>
  /\ Last(console).pattern # GGGGG
  /\ \A c \in Range(remaining) : ~ConsistentWith(c, Last(console))
  /\ remaining # <<>>

\* C22: in a CSP solve whose target is in the loaded dictionary every
\* attempt that does not solve guesses a pool word, finds a pool word
\* consistent with the pattern (the fallback does not fire) and leaves a
\* strictly smaller pool without the guess; so with a dictionary of n <= 6
\* words attempt n + 1 is never started and the solve ends Solved within n.
C22_ListedPoolShrinks ==
  /\ [][(/\ selector = "csp" /\ Listed /\ pc = "loop"
          /\ Len(console') > Len(console)
          /\ Last(console').pattern # GGGGG) =>
          /\ Last(console').guess \in Range(remaining)
          /\ \E c \in Range(remaining) : ConsistentWith(c, Last(console'))
          /\ Last(console').guess \notin Range(remaining')
          /\ Range(remaining') \subseteq Range(remaining)
          /\ Len(remaining') < Len(remaining)]_vars
  /\ [](selector = "csp" /\ Listed /\ Len(word_list) <= MaxAttempts =>
          /\ pc = "loop" => iterations < Len(word_list)
          /\ iterations <= Len(word_list)
          /\ pc = "finalize" => guess_count # NoCount
          /\ pc = "done" => outcome = Solved /\ guess_count \in 1..Len(word_list))

\* a dictionary of five words or more, solved at the third attempt or later
C22_Witness ==
  /\ selector = "csp" /\ Listed /\ outcome = Solved
  /\ Len(word_list) > 4 /\ Len(word_list) <= MaxAttempts
  /\ guess_count > 2

\* C23 (as claimed): in the externally-advised loop the list of guessed
\* words has no duplicates, there are as many rows as guessed words, that
\* number is at most the attempt counter, and a solve that ends Exhausted
\* has recorded exactly six rows.
C23_RowsAtExhausted ==
  selector = "gpt" =>
    /\ \A i, j \in 1..Len(guessed_words) :
         i # j => guessed_words[i] # guessed_words[j]
    /\ Len(feedback_rows) = Len(guessed_words)
    /\ Len(guessed_words) <= attempt
    /\ outcome = Exhausted => Len(feedback_rows) = MaxAttempts

====
